---- MODULE Spec2Model ----
(***************************************************************************)
(* Authentication and credential lifecycle of the notes-sharing server:    *)
(* the auth controller (signup, login, refresh, logout, forgot-password,   *)
(* reset-password, verify-reset-token), the PasswordReset collection, the  *)
(* mail helper and the fixed-window rate limiter.                          *)
(*                                                                         *)
(* Time is Date.now() in milliseconds.  A user's _id is represented by the *)
(* (unique, never changed) normalised email of the user.                   *)
(***************************************************************************)
EXTENDS Integers, Sequences, FiniteSets, TLC

VARIABLES
  now,          \* Date.now(), in ms
  ticks,        \* how many times the clock has advanced
  transporter,  \* module variable `transporter` of the mail helper
  users,        \* collection User: normalised email -> document, or NoUser
  resets,       \* collection PasswordReset: set of documents
  refresh,      \* collection RefreshToken: set of documents
  issued,       \* plaintext reset tokens generated so far, in order, with their user
  rtIssued,     \* refresh tokens handed to a caller so far
  outbox,       \* mails handed to transporter.sendMail
  log,          \* lines written by console.log / console.error
  resp,         \* the response of the last finished request
  procs,        \* requests in flight, each at an await of its handler
  rateLimitStore, \* Map<string, RateLimitEntry> of the rate limiter
  underTest,    \* the limiter the rate-limiter runs call
  rl,           \* the last decision of the rate limiter: headers, status, body
  admitted,     \* per key: the calls passed on to the handler in the current window
  unswept       \* the rateLimitStore of the same calls when the sweep never fires

authVars == <<transporter, users, resets, refresh, issued, rtIssued, outbox, log>>
rlVars == <<rateLimitStore, underTest, rl, admitted, unswept>>
vars == <<now, ticks, authVars, resp, procs, rlVars>>

(***************************************************************************)
(* Bounds of the model.                                                    *)
(***************************************************************************)
MaxAdvances == 3      \* clock advances in one behaviour
MaxResetTokens == 2   \* reset tokens crypto.randomBytes hands out
MaxRefreshTokens == 2 \* refresh tokens generateRefreshToken hands out
MaxOver == 2          \* calls counted by a limiter beyond its maxRequests
MaxProcs == 3         \* requests handled in one concurrent run

(***************************************************************************)
(* Program constants.                                                      *)
(***************************************************************************)
ResetTTL == 15 * 60 * 1000
RefreshTTL == 7 * 24 * 60 * 60 * 1000
ALLOWED_EMAIL_DOMAIN == "@mictech.edu.in"
successMessage == "If an account with that email exists, a password reset link has been sent."
InvalidResetMsg == "Invalid or expired reset token. Please request a new password reset."
InvalidVerifyMsg == "Invalid or expired reset token"
ResetDoneMsg == "Password has been reset successfully. Please log in with your new password."

None == "none"
NoHash == [alg |-> "none", of |-> ""]
NoUser == [exists |-> FALSE, passwordHash |-> NoHash, googleId |-> FALSE]

(***************************************************************************)
(* Request inputs.  An email as typed is a local part, a letter case and a *)
(* domain; String.toLowerCase and the validators' normalizeEmail change    *)
(* the case only.                                                          *)
(***************************************************************************)
Locals == {"a", "b", "c"}
RawEmails == [local : Locals, upper : BOOLEAN, domain : {ALLOWED_EMAIL_DOMAIN}]
               \cup {[local |-> "a", upper |-> FALSE, domain |-> "@gmail.com"]}
toLowerCase(e) == [e EXCEPT !.upper = FALSE]
normalizeEmail(e) == toLowerCase(e)
endsWith(e, d) == e.domain = d
Emails == {normalizeEmail(e) : e \in RawEmails}
Passwords == {"password1", "password2"}
ResetTokens == 1..MaxResetTokens
RefreshSerials == 1..MaxRefreshTokens

\* crypto.createHash('sha256').update(t).digest('hex'): injective on the
\* tokens of the model, and never equal to a plaintext token
sha256 == [t \in ResetTokens |-> <<"sha256", t>>]
hashToken(t) == sha256[t]

\* pre-save hook of User and user.comparePassword
hashPassword(p) == [alg |-> "bcrypt", of |-> p]
comparePassword(u, p) == u.passwordHash # NoHash /\ u.passwordHash = hashPassword(p)

\* generateRefreshToken / verifyRefreshToken: a signed token carrying userId
generateRefreshToken(uid, n) == [userId |-> uid, serial |-> n]
verifyRefreshToken(t) == [userId |-> t.userId]

\* what a caller sees of a response: the status and the JSON body; `op`, `arg`
\* and `case` record which request was answered and which branch answered it
NoEmail == [local |-> "", upper |-> FALSE, domain |-> ""]
NoToken == [userId |-> NoEmail, serial |-> 0]
Response(op, arg, status, body, case) ==
  [op |-> op, arg |-> arg, status |-> status, body |-> body, case |-> case]
Msg(m) == [kind |-> "message", text |-> m, refreshToken |-> NoToken]
Err(m) == [kind |-> "error", text |-> m, refreshToken |-> NoToken]
Session(m, t) == [kind |-> "session", text |-> m, refreshToken |-> t]
ValidationErrors == [kind |-> "errors", text |-> "validation", refreshToken |-> NoToken]
NoArg == 0
NoResponse == Response("none", NoArg, 0, Msg(""), "none")

(***************************************************************************)
(* The persistence operations the handlers call.                           *)
(***************************************************************************)
\* User.findOne({ email })
FindUserNobody(us, email) == NoUser
FindUser(us, email) == us[email]

\* PasswordReset.updateMany({ userId, used: false }, { used: true })
InvalidatePriorNoop(rs, uid) == rs
InvalidatePrior(rs, uid) ==
  {IF r.userId = uid /\ ~r.used THEN [r EXCEPT !.used = TRUE] ELSE r : r \in rs}

\* PasswordReset.create({ userId, tokenHash, expiresAt: now + 15 min, used: false })
CreateReset(rs, uid, tokenHash, t) ==
  rs \cup {[userId |-> uid, tokenHash |-> tokenHash,
            expiresAt |-> t + ResetTTL, used |-> FALSE]}

\* PasswordReset.findOne({ tokenHash, used: false, expiresAt: { $gt: now } })
FindValidResetAnyUse(rs, tokenHash, t) ==
  {r \in rs : r.tokenHash = tokenHash /\ r.expiresAt > t}
FindValidResetGte(rs, tokenHash, t) ==
  {r \in rs : r.tokenHash = tokenHash /\ r.used = FALSE /\ r.expiresAt >= t}
FindValidReset(rs, tokenHash, t) ==
  {r \in rs : r.tokenHash = tokenHash /\ r.used = FALSE /\ r.expiresAt > t}

\* verifyResetToken has its own copy of the query:
\* PasswordReset.findOne({ tokenHash, used: false, expiresAt: { $gt: new Date() } })
VerifyLookupAnyUse(rs, tokenHash, t) ==
  {r \in rs : r.tokenHash = tokenHash /\ r.expiresAt > t}
VerifyLookup(rs, tokenHash, t) ==
  {r \in rs : r.tokenHash = tokenHash /\ r.used = FALSE /\ r.expiresAt > t}

\* user.passwordHash = password; user.save() (the pre-save hook hashes it)
SavePasswordLost(us, uid, password) == us
SavePassword(us, uid, password) == [us EXCEPT ![uid].passwordHash = hashPassword(password)]

\* resetRecord.used = true; resetRecord.save()
MarkUsedLost(rs, rec) == rs
MarkUsed(rs, rec) ==
  {IF r.tokenHash = rec.tokenHash /\ r.userId = rec.userId
     THEN [r EXCEPT !.used = TRUE] ELSE r : r \in rs}

\* RefreshToken.create({ userId, token, expiresAt: now + 7 days })
CreateRefreshReplacing(rt, uid, token, t) ==
  {r \in rt : r.userId # uid} \cup {[userId |-> uid, token |-> token, expiresAt |-> t + RefreshTTL]}
CreateRefresh(rt, uid, token, t) ==
  rt \cup {[userId |-> uid, token |-> token, expiresAt |-> t + RefreshTTL]}

\* RefreshToken.deleteMany({ userId })
DeleteRefreshOfNobody(rt, uid) == rt
DeleteRefreshOf(rt, uid) == {r \in rt : r.userId # uid}

\* RefreshToken.findOne({ token, userId })
FindRefreshNone(rt, token, uid) == {}
FindRefresh(rt, token, uid) == {r \in rt : r.token = token /\ r.userId = uid}

\* RefreshToken.deleteOne({ token })
DeleteRefreshToken(rt, token) == {r \in rt : r.token # token}

\* crypto.randomBytes(32) never repeats a value, and neither does the token
\* signer: the k-th token generated is named k
FreshResetTokens == {t \in ResetTokens : t = Len(issued) + 1}
FreshRefreshSerials == {n \in RefreshSerials : n = Cardinality(rtIssued) + 1}

(***************************************************************************)
(* sendPasswordResetEmail(email, resetToken, userName).  outbox holds the  *)
(* mails given to transporter.sendMail, log the console lines that carry   *)
(* the reset URL (the other console lines carry no token and are left      *)
(* out).  sendOk is whether transporter.sendMail resolves.                 *)
(***************************************************************************)
MailOutbox(ob, email, token) ==
  IF transporter # "null" THEN ob \cup {[to |-> email, token |-> token]} ELSE ob

MailLog(lg, email, token) ==
  IF transporter = "null" THEN lg \cup {[line |-> "Reset URL", token |-> token]} ELSE lg

\* the three ways sendPasswordResetEmail can end
MailCase(sendOk) ==
  IF transporter = "null" THEN "registered-nomail"
  ELSE IF sendOk THEN "registered-mailed" ELSE "registered-mailfail"

Init ==
  /\ now = 0
  /\ ticks = 0
  /\ transporter \in {"null", "smtp"}
  /\ users = [e \in Emails |-> NoUser]
  /\ resets = {}
  /\ refresh = {}
  /\ issued = <<>>
  /\ rtIssued = {}
  /\ outbox = {}
  /\ log = {}
  /\ resp = NoResponse
  /\ procs = <<>>
  /\ rateLimitStore = <<>>
  /\ underTest = None
  /\ rl = None
  /\ admitted = <<>>
  /\ unswept = <<>>

(***************************************************************************)
(* The handlers, each run from its first line to its response with no      *)
(* other request in between (sequential calls), at one instant of the      *)
(* clock.  The validators of the route run first.                          *)
(***************************************************************************)
\* POST /signup: validateSignup, signup
Signup(raw, password) ==
  LET email == normalizeEmail(raw) IN
  /\ IF ~endsWith(email, ALLOWED_EMAIL_DOMAIN)
       THEN /\ resp' = Response("signup", NoArg, 400, ValidationErrors, "validation")
            /\ UNCHANGED <<users, refresh, rtIssued>>
       ELSE IF FindUser(users, email).exists
         THEN /\ resp' = Response("signup", NoArg, 409, Err("Email already registered"), "conflict")
              /\ UNCHANGED <<users, refresh, rtIssued>>
         ELSE \E n \in FreshRefreshSerials :
                LET refreshToken == generateRefreshToken(email, n) IN
                /\ users' = [users EXCEPT ![email] =
                               [exists |-> TRUE, passwordHash |-> hashPassword(password),
                                googleId |-> FALSE]]
                /\ refresh' = CreateRefresh(refresh, email, refreshToken, now)
                /\ rtIssued' = rtIssued \cup {refreshToken}
                /\ resp' = Response("signup", NoArg, 201,
                                    Session("User registered successfully", refreshToken), "ok")
  /\ UNCHANGED <<now, ticks, transporter, resets, issued, outbox, log, procs, rlVars>>

\* the external identity provider yields a verified principal (created on the
\* first federated login, without a password), then googleCallback
GoogleLogin(email) ==
  /\ endsWith(email, ALLOWED_EMAIL_DOMAIN)
  /\ \E n \in FreshRefreshSerials :
       LET refreshToken == generateRefreshToken(email, n) IN
       /\ users' = IF users[email].exists THEN users
                    ELSE [users EXCEPT ![email] =
                            [exists |-> TRUE, passwordHash |-> NoHash, googleId |-> TRUE]]
       /\ refresh' = CreateRefresh(refresh, email, refreshToken, now)
       /\ rtIssued' = rtIssued \cup {refreshToken}
       /\ resp' = Response("google", NoArg, 302, Session("redirect", refreshToken), "ok")
  /\ UNCHANGED <<now, ticks, transporter, resets, issued, outbox, log, procs, rlVars>>

\* login: the answer to an unknown email and to a wrong password
LoginFailureTelling(case) ==
  IF case = "no-user"
    THEN Response("login", NoArg, 404, Err("User not found"), case)
    ELSE Response("login", NoArg, 401, Err("Invalid credentials"), case)
LoginFailure(case) ==
  Response("login", NoArg, 401, Err("Invalid credentials"), case)

\* POST /login: validateLogin, login (the limiter of the route is modelled apart)
Login(raw, password) ==
  LET email == normalizeEmail(raw)
      user == FindUser(users, email) IN
  /\ IF ~user.exists
       THEN /\ resp' = LoginFailure("no-user")
            /\ UNCHANGED <<refresh, rtIssued>>
       ELSE IF ~comparePassword(user, password)
         THEN /\ resp' = LoginFailure("wrong-password")
              /\ UNCHANGED <<refresh, rtIssued>>
         ELSE \E n \in FreshRefreshSerials :
                LET refreshToken == generateRefreshToken(email, n) IN
                /\ refresh' = CreateRefresh(refresh, email, refreshToken, now)
                /\ rtIssued' = rtIssued \cup {refreshToken}
                /\ resp' = Response("login", NoArg, 200,
                                    Session("Login successful", refreshToken), "ok")
  /\ UNCHANGED <<now, ticks, transporter, users, resets, issued, outbox, log, procs, rlVars>>

\* storedToken.expiresAt < new Date()
RefreshExpiredNever(r, t) == FALSE
RefreshExpired(r, t) == r.expiresAt < t

\* POST /refresh: refreshAccessToken.  NoToken is a body without refreshToken;
\* verifyRefreshToken throws for a token this server did not sign, and the
\* catch answers 401
RefreshAccessToken(token) ==
  LET stored == FindRefresh(refresh, token, verifyRefreshToken(token).userId) IN
  /\ IF token = NoToken
       THEN /\ resp' = Response("refresh", token, 400, Err("Refresh token required"), "missing")
            /\ UNCHANGED refresh
       ELSE IF token \notin rtIssued
         THEN /\ resp' = Response("refresh", token, 401, Err("Invalid refresh token"), "bad-signature")
              /\ UNCHANGED refresh
         ELSE IF stored = {}
           THEN /\ resp' = Response("refresh", token, 401, Err("Invalid refresh token"), "no-row")
                /\ UNCHANGED refresh
           ELSE IF RefreshExpired(CHOOSE r \in stored : TRUE, now)
             THEN /\ refresh' = refresh \ stored
                  /\ resp' = Response("refresh", token, 401, Err("Refresh token expired"), "expired")
             ELSE IF ~users[verifyRefreshToken(token).userId].exists
               THEN /\ resp' = Response("refresh", token, 404, Err("User not found"), "no-user")
                    /\ UNCHANGED refresh
               ELSE /\ resp' = Response("refresh", token, 200, Msg("accessToken"), "ok")
                    /\ UNCHANGED refresh
  /\ UNCHANGED <<now, ticks, transporter, users, resets, issued, rtIssued, outbox, log,
                 procs, rlVars>>

\* logout: RefreshToken.deleteOne({ token }) when the body carries a token
LogoutKeepsRow(rt, token) == rt
LogoutDelete(rt, token) == IF token = NoToken THEN rt ELSE DeleteRefreshToken(rt, token)

\* POST /logout: logout
Logout(token) ==
  /\ refresh' = LogoutDelete(refresh, token)
  /\ resp' = Response("logout", token, 200, Msg("Logout successful"),
                      IF token = NoToken THEN "no-token" ELSE "ok")
  /\ UNCHANGED <<now, ticks, transporter, users, resets, issued, rtIssued, outbox, log,
                 procs, rlVars>>

\* forgotPassword: the answer once the request is validated, whichever branch
\* answers and whatever sendPasswordResetEmail returned
ForgotReplyTelling(case) ==
  IF case = "registered-mailfail"
    THEN Response("forgot", NoArg, 500, Err("Failed to process request. Please try again."), case)
    ELSE Response("forgot", NoArg, 200, Msg(successMessage), case)
ForgotReply(case) ==
  Response("forgot", NoArg, 200, Msg(successMessage), case)

\* POST /forgot-password: validateForgotPassword, forgotPassword (the limiter
\* of the route is modelled apart)
ForgotPassword(raw) ==
  LET email == normalizeEmail(raw)
      uid == toLowerCase(email)
      user == FindUser(users, uid) IN
  /\ IF ~endsWith(email, ALLOWED_EMAIL_DOMAIN)
       THEN /\ resp' = Response("forgot", NoArg, 400, ValidationErrors, "validation")
            /\ UNCHANGED <<resets, issued, outbox, log>>
       ELSE IF ~user.exists
         THEN /\ resp' = ForgotReply("unregistered")
              /\ UNCHANGED <<resets, issued, outbox, log>>
         ELSE IF user.googleId /\ user.passwordHash = NoHash
           THEN /\ resp' = ForgotReply("federated")
                /\ UNCHANGED <<resets, issued, outbox, log>>
           ELSE \E plainToken \in FreshResetTokens, sendOk \in BOOLEAN :
                  /\ resets' = CreateReset(InvalidatePrior(resets, uid), uid,
                                           hashToken(plainToken), now)
                  /\ issued' = Append(issued, [userId |-> uid, token |-> plainToken])
                  /\ outbox' = MailOutbox(outbox, email, plainToken)
                  /\ log' = MailLog(log, email, plainToken)
                  /\ resp' = ForgotReply(MailCase(sendOk))
  /\ UNCHANGED <<now, ticks, transporter, users, refresh, rtIssued, procs, rlVars>>

\* a refresh token this server never signed
ForgedRefreshToken == [userId |-> [local |-> "a", upper |-> FALSE, domain |-> ALLOWED_EMAIL_DOMAIN],
                       serial |-> 0]

\* a token as submitted: one of the 64-character tokens, or a malformed one
Malformed == 0
SubmittedTokens == ResetTokens \cup {Malformed}
HasLength64(token) == token \in ResetTokens

\* POST /reset-password: validateResetPassword, resetPassword
ResetPassword(token, password, confirmPassword) ==
  LET found == FindValidReset(resets, hashToken(token), now)
      resetRecord == CHOOSE r \in found : TRUE IN
  /\ IF ~HasLength64(token) \/ confirmPassword # password
       THEN /\ resp' = Response("reset", token, 400, ValidationErrors, "validation")
            /\ UNCHANGED <<users, resets, refresh>>
       ELSE IF found = {}
         THEN /\ resp' = Response("reset", token, 400, Err(InvalidResetMsg), "invalid")
              /\ UNCHANGED <<users, resets, refresh>>
         ELSE IF ~users[resetRecord.userId].exists
           THEN /\ resp' = Response("reset", token, 400, Err("User not found"), "no-user")
                /\ UNCHANGED <<users, resets, refresh>>
           ELSE /\ users' = SavePassword(users, resetRecord.userId, password)
                /\ resets' = MarkUsed(resets, resetRecord)
                /\ refresh' = DeleteRefreshOf(refresh, resetRecord.userId)
                /\ resp' = Response("reset", token, 200, Msg(ResetDoneMsg), "ok")
  /\ UNCHANGED <<now, ticks, transporter, issued, rtIssued, outbox, log, procs, rlVars>>

\* GET /verify-reset-token/:token: verifyResetToken
VerifyResetToken(token) ==
  /\ resp' =
       IF ~HasLength64(token)
         THEN Response("verify", token, 400, Err("Invalid token format"), "format")
         ELSE IF VerifyLookup(resets, hashToken(token), now) = {}
           THEN Response("verify", token, 400, Err(InvalidVerifyMsg), "invalid")
           ELSE Response("verify", token, 200, Msg("valid"), "ok")
  /\ UNCHANGED <<now, ticks, authVars, procs, rlVars>>

\* the TTL index on PasswordReset.expiresAt: the store deletes an expired document
TTLPassedAnytime(r, t) == TRUE
TTLPassed(r, t) == r.expiresAt < t
PassiveExpiry ==
  /\ \E r \in resets : TTLPassed(r, now) /\ resets' = resets \ {r}
  /\ UNCHANGED <<now, ticks, transporter, users, refresh, issued, rtIssued, outbox, log,
                 resp, procs, rlVars>>

\* the clock: a millisecond passes, or all but a millisecond of a reset
\* token's life
ClockSteps == {1, ResetTTL - 1}
Advance ==
  /\ ticks < MaxAdvances
  /\ \E d \in ClockSteps : now' = now + d
  /\ ticks' = ticks + 1
  /\ UNCHANGED <<authVars, resp, procs, rlVars>>

(***************************************************************************)
(* Spec: the session flows, called one after the other.  Signups come from *)
(* local part "a", federated principals from local part "b".               *)
(***************************************************************************)
SignupEmails == {r \in RawEmails : r.local = "a"}
GoogleEmails == {e \in Emails : e.local = "b"}

Next ==
  \/ \E raw \in SignupEmails, p \in Passwords : Signup(raw, p)
  \/ \E e \in GoogleEmails : GoogleLogin(e)
  \/ \E raw \in RawEmails, p \in Passwords : Login(raw, p)
  \/ \E t \in rtIssued \cup {ForgedRefreshToken} : RefreshAccessToken(t)
  \/ \E t \in rtIssued : Logout(t)
  \/ \E raw \in RawEmails : ForgotPassword(raw)
  \/ \E t \in SubmittedTokens, p, c \in Passwords : ResetPassword(t, p, c)
  \/ \E t \in SubmittedTokens : VerifyResetToken(t)

Spec == Init /\ [][Next]_vars

(***************************************************************************)
(* SpecReset: the life of the reset tokens under a moving clock.  The      *)
(* users registered earlier and have logged out: "a" has a password, "b"   *)
(* is federated-only, "c" is not registered.                               *)
(***************************************************************************)
EmailOf(l) == [local |-> l, upper |-> FALSE, domain |-> ALLOWED_EMAIL_DOMAIN]
PasswordUser(p) == [exists |-> TRUE, passwordHash |-> hashPassword(p), googleId |-> FALSE]
FederatedUser == [exists |-> TRUE, passwordHash |-> NoHash, googleId |-> TRUE]

InitReset ==
  /\ now = 0
  /\ ticks = 0
  /\ transporter \in {"null", "smtp"}
  /\ users = [e \in Emails |->
                IF e = EmailOf("a") THEN PasswordUser("password1")
                ELSE IF e = EmailOf("b") THEN FederatedUser ELSE NoUser]
  /\ resets = {}
  /\ refresh = {}
  /\ issued = <<>>
  /\ rtIssued = {generateRefreshToken(EmailOf("a"), 1), generateRefreshToken(EmailOf("b"), 2)}
  /\ outbox = {}
  /\ log = {}
  /\ resp = NoResponse
  /\ procs = <<>>
  /\ rateLimitStore = <<>>
  /\ underTest = None
  /\ rl = None
  /\ admitted = <<>>
  /\ unswept = <<>>

\* the requests of these runs: the email as typed in either case for the
\* registered user, the new password "password2", confirmed or (for one
\* token) not
ForgotInputs == {r \in RawEmails : ~r.upper \/ r.local = "a"}
ResetInputs ==
  {<<t, "password2", "password2">> : t \in SubmittedTokens}
    \cup {<<t, "password2", "password1">> : t \in {1}}

NextReset ==
  \/ \E raw \in ForgotInputs : ForgotPassword(raw)
  \/ \E i \in ResetInputs : ResetPassword(i[1], i[2], i[3])
  \/ \E t \in SubmittedTokens : VerifyResetToken(t)
  \/ PassiveExpiry
  \/ Advance

SpecReset == InitReset /\ [][NextReset]_vars

(***************************************************************************)
(* SpecSession: the life of the refresh tokens under a moving clock.  The  *)
(* user "a" registered earlier with "password1" and has logged out; the    *)
(* mail transport is configured.                                           *)
(***************************************************************************)
InitSession ==
  /\ now = 0
  /\ ticks = 0
  /\ transporter = "smtp"
  /\ users = [e \in Emails |-> IF e = EmailOf("a") THEN PasswordUser("password1") ELSE NoUser]
  /\ resets = {}
  /\ refresh = {}
  /\ issued = <<>>
  /\ rtIssued = {}
  /\ outbox = {}
  /\ log = {}
  /\ resp = NoResponse
  /\ procs = <<>>
  /\ rateLimitStore = <<>>
  /\ underTest = None
  /\ rl = None
  /\ admitted = <<>>
  /\ unswept = <<>>

\* the clock: a millisecond passes, or the whole life of a refresh token
\* (once: the runs end shortly after the first tokens have expired)
SessionClockSteps == {1, RefreshTTL}
AdvanceSession ==
  /\ ticks < MaxAdvances
  /\ \E d \in SessionClockSteps : now + d <= RefreshTTL + MaxAdvances /\ now' = now + d
  /\ ticks' = ticks + 1
  /\ UNCHANGED <<authVars, resp, procs, rlVars>>

\* the reset tokens generated so far (one password reset is asked for per run)
IssuedSoFar == {issued[i].token : i \in 1..Len(issued)}
PresentedTokens == rtIssued \cup {ForgedRefreshToken, NoToken}

NextSession ==
  \/ \E p \in Passwords : Login(EmailOf("a"), p)
  \/ \E t \in PresentedTokens : RefreshAccessToken(t)
  \/ \E t \in PresentedTokens : Logout(t)
  \/ issued = <<>> /\ ForgotPassword(EmailOf("a"))
  \/ \E t \in IssuedSoFar : ResetPassword(t, "password2", "password2")
  \/ AdvanceSession

SpecSession == InitSession /\ [][NextSession]_vars

(***************************************************************************)
(* SpecConc: requests in flight together.  A handler gives up control at   *)
(* each await, so each action below is one awaited persistence call (or    *)
(* the mail call) with the synchronous code before it.  procs[p] is        *)
(* request p: its validated body, the line it waits at, what it has read,  *)
(* and its response once it has answered.                                  *)
(***************************************************************************)
ProcIds == 1..MaxProcs
NoRecord == [userId |-> NoEmail, tokenHash |-> <<"sha256", 0>>, expiresAt |-> 0, used |-> FALSE]
IdleProc ==
  [op |-> "idle", pc |-> "idle", email |-> NoEmail, token |-> 0, password |-> "",
   user |-> NoUser, record |-> NoRecord, refreshToken |-> NoToken, status |-> 0, body |-> Msg("")]
Started(p) == procs[p].op # "idle"
CanStart(p) == ~Started(p) /\ \A q \in ProcIds : q < p => Started(q)
Answer(p, status, body) ==
  [procs EXCEPT ![p].pc = "done", ![p].status = status, ![p].body = body]
At(p, op, pc) == procs[p].op = op /\ procs[p].pc = pc

\* forgotPassword, lines 305-317: User.findOne
FP_FindUser(p, email) ==
  LET user == FindUser(users, toLowerCase(email))
      me == [IdleProc EXCEPT !.op = "forgot", !.email = email, !.user = user] IN
  /\ CanStart(p)
  /\ procs' = [procs EXCEPT ![p] =
       IF ~user.exists \/ (user.googleId /\ user.passwordHash = NoHash)
         THEN [me EXCEPT !.pc = "done", !.status = 200, !.body = Msg(successMessage)]
         ELSE [me EXCEPT !.pc = "updateMany"]]
  /\ UNCHANGED <<now, ticks, authVars, resp, rlVars>>

\* forgotPassword, lines 326-334: the token is generated, PasswordReset.updateMany
FP_UpdateMany(p) ==
  /\ At(p, "forgot", "updateMany")
  /\ \E plainToken \in FreshResetTokens :
       /\ issued' = Append(issued, [userId |-> toLowerCase(procs[p].email), token |-> plainToken])
       /\ procs' = [procs EXCEPT ![p].pc = "create", ![p].token = plainToken]
  /\ resets' = InvalidatePrior(resets, toLowerCase(procs[p].email))
  /\ UNCHANGED <<now, ticks, transporter, users, refresh, rtIssued, outbox, log, resp, rlVars>>

\* forgotPassword, lines 336-342: PasswordReset.create
FP_Create(p) ==
  /\ At(p, "forgot", "create")
  /\ resets' = CreateReset(resets, toLowerCase(procs[p].email), hashToken(procs[p].token), now)
  /\ procs' = [procs EXCEPT ![p].pc = "sendMail"]
  /\ UNCHANGED <<now, ticks, transporter, users, refresh, issued, rtIssued, outbox, log,
                 resp, rlVars>>

\* forgotPassword, lines 344-347: sendPasswordResetEmail, res.json
FP_SendMail(p) ==
  /\ At(p, "forgot", "sendMail")
  /\ outbox' = MailOutbox(outbox, procs[p].email, procs[p].token)
  /\ log' = MailLog(log, procs[p].email, procs[p].token)
  /\ procs' = Answer(p, 200, Msg(successMessage))
  /\ UNCHANGED <<now, ticks, transporter, users, resets, refresh, issued, rtIssued,
                 resp, rlVars>>

\* resetPassword, lines 370-387: PasswordReset.findOne
RP_FindRecord(p, token, password) ==
  LET found == FindValidReset(resets, hashToken(token), now)
      me == [IdleProc EXCEPT !.op = "reset", !.token = token, !.password = password] IN
  /\ CanStart(p)
  /\ procs' = [procs EXCEPT ![p] =
       IF found = {}
         THEN [me EXCEPT !.pc = "done", !.status = 400, !.body = Err(InvalidResetMsg)]
         ELSE [me EXCEPT !.pc = "findById", !.record = CHOOSE r \in found : TRUE]]
  /\ UNCHANGED <<now, ticks, authVars, resp, rlVars>>

\* resetPassword, lines 389-394: User.findById
RP_FindUser(p) ==
  /\ At(p, "reset", "findById")
  /\ procs' = IF users[procs[p].record.userId].exists
                THEN [procs EXCEPT ![p].pc = "saveUser", ![p].user = users[procs[p].record.userId]]
                ELSE Answer(p, 400, Err("User not found"))
  /\ UNCHANGED <<now, ticks, authVars, resp, rlVars>>

\* resetPassword, lines 396-398: user.save
RP_SaveUser(p) ==
  /\ At(p, "reset", "saveUser")
  /\ users' = SavePassword(users, procs[p].record.userId, procs[p].password)
  /\ procs' = [procs EXCEPT ![p].pc = "saveRecord"]
  /\ UNCHANGED <<now, ticks, transporter, resets, refresh, issued, rtIssued, outbox, log,
                 resp, rlVars>>

\* resetPassword, lines 400-402: resetRecord.save
RP_SaveRecord(p) ==
  /\ At(p, "reset", "saveRecord")
  /\ resets' = MarkUsed(resets, procs[p].record)
  /\ procs' = [procs EXCEPT ![p].pc = "deleteMany"]
  /\ UNCHANGED <<now, ticks, transporter, users, refresh, issued, rtIssued, outbox, log,
                 resp, rlVars>>

\* resetPassword, lines 404-409: RefreshToken.deleteMany, res.json
RP_DeleteRefresh(p) ==
  /\ At(p, "reset", "deleteMany")
  /\ refresh' = DeleteRefreshOf(refresh, procs[p].record.userId)
  /\ procs' = Answer(p, 200, Msg(ResetDoneMsg))
  /\ UNCHANGED <<now, ticks, transporter, users, resets, issued, rtIssued, outbox, log,
                 resp, rlVars>>

\* login, lines 96-103: User.findOne
LG_FindUser(p, email, password) ==
  LET user == FindUser(users, email)
      me == [IdleProc EXCEPT !.op = "login", !.email = email, !.password = password,
                             !.user = user] IN
  /\ CanStart(p)
  /\ procs' = [procs EXCEPT ![p] =
       IF ~user.exists
         THEN [me EXCEPT !.pc = "done", !.status = 401, !.body = Err("Invalid credentials")]
         ELSE [me EXCEPT !.pc = "compare"]]
  /\ UNCHANGED <<now, ticks, authVars, resp, rlVars>>

\* login, lines 105-110: user.comparePassword, on the document read by findOne
LG_Compare(p) ==
  /\ At(p, "login", "compare")
  /\ procs' = IF comparePassword(procs[p].user, procs[p].password)
                THEN [procs EXCEPT ![p].pc = "createToken"]
                ELSE Answer(p, 401, Err("Invalid credentials"))
  /\ UNCHANGED <<now, ticks, authVars, resp, rlVars>>

\* login, lines 112-137: the tokens are generated, RefreshToken.create, res.json
LG_CreateRefresh(p) ==
  /\ At(p, "login", "createToken")
  /\ \E n \in FreshRefreshSerials :
       LET refreshToken == generateRefreshToken(procs[p].email, n) IN
       /\ refresh' = CreateRefresh(refresh, procs[p].email, refreshToken, now)
       /\ rtIssued' = rtIssued \cup {refreshToken}
       /\ procs' = [Answer(p, 200, Session("Login successful", refreshToken))
                      EXCEPT ![p].refreshToken = refreshToken]
  /\ UNCHANGED <<now, ticks, transporter, users, resets, issued, outbox, log, resp, rlVars>>

\* the user "a" registered earlier with "password1" and has logged out
InitConc ==
  /\ now = 0
  /\ ticks = 0
  /\ transporter \in {"null", "smtp"}
  /\ users = [e \in Emails |-> IF e = EmailOf("a") THEN PasswordUser("password1") ELSE NoUser]
  /\ resets = {}
  /\ refresh = {}
  /\ issued = <<>>
  /\ rtIssued = {}
  /\ outbox = {}
  /\ log = {}
  /\ resp = NoResponse
  /\ procs = [p \in ProcIds |-> IdleProc]
  /\ rateLimitStore = <<>>
  /\ underTest = None
  /\ rl = None
  /\ admitted = <<>>
  /\ unswept = <<>>

ConcEmails == {EmailOf("a")}
\* the reset tokens a caller can know: those mailed or printed
DeliveredTokens == {m.token : m \in outbox} \cup {l.token : l \in log}

NextConc ==
  \/ \E p \in ProcIds, e \in ConcEmails : FP_FindUser(p, e)
  \/ \E p \in ProcIds : FP_UpdateMany(p)
  \/ \E p \in ProcIds : FP_Create(p)
  \/ \E p \in ProcIds : FP_SendMail(p)
  \/ \E p \in ProcIds, t \in DeliveredTokens, pw \in Passwords : RP_FindRecord(p, t, pw)
  \/ \E p \in ProcIds : RP_FindUser(p)
  \/ \E p \in ProcIds : RP_SaveUser(p)
  \/ \E p \in ProcIds : RP_SaveRecord(p)
  \/ \E p \in ProcIds : RP_DeleteRefresh(p)
  \/ \E p \in ProcIds, e \in ConcEmails, pw \in Passwords : LG_FindUser(p, e, pw)
  \/ \E p \in ProcIds : LG_Compare(p)
  \/ \E p \in ProcIds : LG_CreateRefresh(p)

SpecConc == InitConc /\ [][NextConc]_vars

(***************************************************************************)
(* SpecRL: the rate limiter.  One run calls one of the limiters built by   *)
(* createRateLimiter; the middleware runs without an await, so a call is   *)
(* one step.  The store is a map from the keys present to their entries.   *)
(***************************************************************************)
forgotPasswordLimiter ==
  [name |-> "forgot-password", windowMs |-> 15 * 60 * 1000, maxRequests |-> 3, keyed |-> "ip+email"]
loginLimiter ==
  [name |-> "login", windowMs |-> 15 * 60 * 1000, maxRequests |-> 10, keyed |-> "ip+email"]
generalLimiter ==
  [name |-> "general", windowMs |-> 60 * 1000, maxRequests |-> 100, keyed |-> "ip"]
Limiters == {forgotPasswordLimiter, loginLimiter, generalLimiter}

Ips == {"10.0.0.1"}
Requests == [ip : Ips, email : {e \in RawEmails : e.local = "a" /\ e.domain = ALLOWED_EMAIL_DOMAIN}]

\* keyGenerator(req): `prefix:ip:lowercased email`, or req.ip by default
keyGeneratorAsTyped(lim, req) ==
  IF lim.keyed = "ip+email"
    THEN [prefix |-> lim.name, ip |-> req.ip, email |-> req.email]
    ELSE [prefix |-> "", ip |-> req.ip, email |-> NoEmail]
keyGenerator(lim, req) ==
  IF lim.keyed = "ip+email"
    THEN [prefix |-> lim.name, ip |-> req.ip, email |-> toLowerCase(req.email)]
    ELSE [prefix |-> "", ip |-> req.ip, email |-> NoEmail]

\* Math.max(a, b)
MaxSecond(a, b) == b
Max(a, b) == IF a >= b THEN a ELSE b
\* Math.ceil(x / 1000) for an integer x
FloorSeconds(x) == x \div 1000
CeilSeconds(x) == IF x % 1000 = 0 THEN x \div 1000 ELSE (x \div 1000) + 1
NoRetry == -1

HasEntry(store, key) == key \in DOMAIN store
\* !entry || entry.resetTime < now
WindowOverUnlessSwept(store, key, t) == ~HasEntry(store, key)
WindowOver(store, key, t) == ~HasEntry(store, key) \/ store[key].resetTime < t
Put(store, key, entry) == [k \in DOMAIN store \cup {key} |-> IF k = key THEN entry ELSE store[k]]

\* entry.count++
IncrementLost(entry) == entry
Increment(entry) == [entry EXCEPT !.count = @ + 1]

\* count > maxRequests
LimitExceededOffByOne(count, maxRequests) == count >= maxRequests
LimitExceeded(count, maxRequests) == count > maxRequests

\* the body of the middleware returned by createRateLimiter(options), lines
\* 43-81: the entry, the headers, and next() or the 429.  `at` is the
\* Date.now() the call read and `before` the count it found (0: no entry);
\* retryAfterHeader is the Retry-After header and retryAfter the field of
\* the body
Decide(lim, req) ==
  LET key == keyGenerator(lim, req) IN
  IF WindowOver(rateLimitStore, key, now)
    THEN LET entry == [count |-> 1, resetTime |-> now + lim.windowMs] IN
         /\ rateLimitStore' = Put(rateLimitStore, key, entry)
         /\ rl' = [key |-> key, at |-> now,
                    before |-> IF HasEntry(rateLimitStore, key) THEN rateLimitStore[key].count ELSE 0,
                    next |-> TRUE, status |-> 0,
                    limit |-> lim.maxRequests, remaining |-> lim.maxRequests - 1,
                    reset |-> entry.resetTime,
                    retryAfterHeader |-> NoRetry, retryAfter |-> NoRetry]
         /\ admitted' = Put(admitted, key, 1)
    ELSE LET entry == Increment(rateLimitStore[key])
             exceeded == LimitExceeded(entry.count, lim.maxRequests)
             retryAfter == CeilSeconds(entry.resetTime - now) IN
         /\ entry.count <= lim.maxRequests + MaxOver
         /\ rateLimitStore' = Put(rateLimitStore, key, entry)
         /\ rl' = [key |-> key, at |-> now, before |-> rateLimitStore[key].count,
                    next |-> ~exceeded,
                    status |-> IF exceeded THEN 429 ELSE 0,
                    limit |-> lim.maxRequests,
                    remaining |-> Max(0, lim.maxRequests - entry.count),
                    reset |-> entry.resetTime,
                    retryAfterHeader |-> IF exceeded THEN retryAfter ELSE NoRetry,
                    retryAfter |-> IF exceeded THEN retryAfter ELSE NoRetry]
         /\ admitted' = IF exceeded THEN admitted ELSE Put(admitted, key, admitted[key] + 1)

\* one call of the limiter under test
RateLimit(lim, req) ==
  /\ lim = underTest
  /\ Decide(lim, req)
  /\ UNCHANGED <<now, ticks, authVars, resp, procs, underTest, unswept>>

\* entry.resetTime < now, line 15
SweptAtReset(entry, t) == entry.resetTime <= t
Swept(entry, t) == entry.resetTime < t

\* the setInterval callback, lines 12-19
Sweep ==
  LET live == {k \in DOMAIN rateLimitStore : ~Swept(rateLimitStore[k], now)} IN
  /\ live # DOMAIN rateLimitStore
  /\ rateLimitStore' = [k \in live |-> rateLimitStore[k]]
  /\ UNCHANGED <<now, ticks, authVars, resp, procs, underTest, rl, admitted, unswept>>

\* the clock: a millisecond passes, or a whole window of the limiter
AdvanceRL ==
  /\ ticks < MaxAdvances
  /\ \E d \in {1, underTest.windowMs} : now' = now + d
  /\ ticks' = ticks + 1
  /\ UNCHANGED <<authVars, resp, procs, rlVars>>

NoDecision ==
  [key |-> [prefix |-> "", ip |-> "", email |-> NoEmail], at |-> 0, before |-> 0, next |-> FALSE,
   status |-> 0, limit |-> 0, remaining |-> 0, reset |-> 0,
   retryAfterHeader |-> NoRetry, retryAfter |-> NoRetry]

InitRL ==
  /\ now = 0
  /\ ticks = 0
  /\ transporter = "null"
  /\ users = [e \in Emails |-> NoUser]
  /\ resets = {}
  /\ refresh = {}
  /\ issued = <<>>
  /\ rtIssued = {}
  /\ outbox = {}
  /\ log = {}
  /\ resp = NoResponse
  /\ procs = <<>>
  /\ rateLimitStore = <<>>
  /\ underTest \in Limiters
  /\ rl = NoDecision
  /\ admitted = <<>>
  /\ unswept = <<>>

NextRL ==
  \/ \E lim \in Limiters, req \in Requests : RateLimit(lim, req)
  \/ Sweep
  \/ AdvanceRL

SpecRL == InitRL /\ [][NextRL]_vars

(***************************************************************************)
(* SpecBurst: a burst of forgot-password requests for one key, in flight   *)
(* together at one instant.  A request arrives, runs the limiter (the      *)
(* middleware has no await: it runs from its first line to next() or to    *)
(* the 429 before any other callback runs), and if passed on it stays in   *)
(* its handler, awaiting persistence, while other requests run the         *)
(* limiter.                                                                *)
(***************************************************************************)
MaxCalls == 5         \* requests of one burst
CallIds == 1..MaxCalls
CanArrive(p) == ~Started(p) /\ \A q \in CallIds : q < p => Started(q)

\* the request reaches the route /forgot-password
RL_Arrive(p, req) ==
  /\ CanArrive(p)
  /\ procs' = [procs EXCEPT ![p] =
                 [IdleProc EXCEPT !.op = "forgot", !.pc = "limiter", !.email = req.email]]
  /\ UNCHANGED <<now, ticks, authVars, resp, rlVars>>

\* forgotPasswordLimiter runs for the request
RL_Middleware(p) ==
  /\ At(p, "forgot", "limiter")
  /\ Decide(underTest, [ip |-> CHOOSE ip \in Ips : TRUE, email |-> procs[p].email])
  /\ procs' = IF rl'.next
                THEN [procs EXCEPT ![p].pc = "handler"]
                ELSE Answer(p, 429, Err("Too many password reset requests. Please try again in 15 minutes."))
  /\ UNCHANGED <<now, ticks, authVars, resp, underTest, unswept>>

\* validateForgotPassword and forgotPassword answer (no user is registered)
RL_Handler(p) ==
  /\ At(p, "forgot", "handler")
  /\ procs' = Answer(p, 200, Msg(successMessage))
  /\ UNCHANGED <<now, ticks, authVars, resp, rlVars>>

InitBurst ==
  /\ now = 0
  /\ ticks = 0
  /\ transporter = "null"
  /\ users = [e \in Emails |-> NoUser]
  /\ resets = {}
  /\ refresh = {}
  /\ issued = <<>>
  /\ rtIssued = {}
  /\ outbox = {}
  /\ log = {}
  /\ resp = NoResponse
  /\ procs = [p \in CallIds |-> IdleProc]
  /\ rateLimitStore = <<>>
  /\ underTest = forgotPasswordLimiter
  /\ rl = NoDecision
  /\ admitted = <<>>
  /\ unswept = <<>>

NextBurst ==
  \/ \E p \in CallIds, req \in Requests : RL_Arrive(p, req)
  \/ \E p \in CallIds : RL_Middleware(p)
  \/ \E p \in CallIds : RL_Handler(p)

SpecBurst == InitBurst /\ [][NextBurst]_vars

(***************************************************************************)
(* SpecKeys: the login limiter and the forgot-password limiter called in   *)
(* any order on the one rateLimitStore, from two network addresses and for *)
(* two emails (one of them typed in either case), at one instant.          *)
(***************************************************************************)
MaxKeyCalls == 9      \* calls of the two limiters in one run
KeyedLimiters == {loginLimiter, forgotPasswordLimiter}
KeyRequests ==
  {[ip |-> "10.0.0.1", email |-> e] :
     e \in {r \in RawEmails : r.domain = ALLOWED_EMAIL_DOMAIN /\ r.local = "a"}}
    \cup {[ip |-> "10.0.0.1", email |-> EmailOf("b")], [ip |-> "10.0.0.2", email |-> EmailOf("a")]}

RECURSIVE TotalCount(_)
TotalCount(store) ==
  IF DOMAIN store = {} THEN 0
  ELSE LET k == CHOOSE x \in DOMAIN store : TRUE IN
       store[k].count + TotalCount([x \in DOMAIN store \ {k} |-> store[x]])

\* router.post('/login', loginLimiter, ...) and
\* router.post('/forgot-password', forgotPasswordLimiter, ...): the limiter runs
KeyedCall(lim, req) ==
  /\ TotalCount(rateLimitStore) < MaxKeyCalls
  /\ Decide(lim, req)
  /\ UNCHANGED <<now, ticks, authVars, resp, procs, underTest, unswept>>

InitKeys ==
  /\ now = 0
  /\ ticks = 0
  /\ transporter = "null"
  /\ users = [e \in Emails |-> NoUser]
  /\ resets = {}
  /\ refresh = {}
  /\ issued = <<>>
  /\ rtIssued = {}
  /\ outbox = {}
  /\ log = {}
  /\ resp = NoResponse
  /\ procs = <<>>
  /\ rateLimitStore = <<>>
  /\ underTest = None
  /\ rl = NoDecision
  /\ admitted = <<>>
  /\ unswept = <<>>

NextKeys == \E lim \in KeyedLimiters, req \in KeyRequests : KeyedCall(lim, req)

SpecKeys == InitKeys /\ [][NextKeys]_vars

(***************************************************************************)
(* SpecSweep: the forgot-password limiter called for two keys while the    *)
(* clock moves and the sweep fires at any moment.  Beside the store of the *)
(* program the run carries `unswept`, the store the same calls at the same *)
(* instants leave when the setInterval callback never runs.                *)
(***************************************************************************)
SweepRequests == {[ip |-> ip, email |-> EmailOf(l)] : ip \in Ips, l \in {"a", "b"}}

\* what a caller sees of a decision: next() or the 429, the headers, the body
Headers(d) ==
  [next |-> d.next, status |-> d.status, limit |-> d.limit, remaining |-> d.remaining,
   reset |-> d.reset, retryAfterHeader |-> d.retryAfterHeader, retryAfter |-> d.retryAfter]

\* the body of the middleware, lines 40-81, run on the store `store` at the
\* instant t: the store it leaves and the decision it makes
Middleware(store, lim, req, t) ==
  LET key == keyGenerator(lim, req) IN
  IF WindowOver(store, key, t)
    THEN LET entry == [count |-> 1, resetTime |-> t + lim.windowMs] IN
         [store |-> Put(store, key, entry),
          next |-> TRUE, status |-> 0,
          limit |-> lim.maxRequests, remaining |-> lim.maxRequests - 1,
          reset |-> entry.resetTime,
          retryAfterHeader |-> NoRetry, retryAfter |-> NoRetry]
    ELSE LET entry == Increment(store[key])
             exceeded == LimitExceeded(entry.count, lim.maxRequests)
             retryAfter == CeilSeconds(entry.resetTime - t) IN
         [store |-> Put(store, key, entry),
          next |-> ~exceeded,
          status |-> IF exceeded THEN 429 ELSE 0,
          limit |-> lim.maxRequests,
          remaining |-> Max(0, lim.maxRequests - entry.count),
          reset |-> entry.resetTime,
          retryAfterHeader |-> IF exceeded THEN retryAfter ELSE NoRetry,
          retryAfter |-> IF exceeded THEN retryAfter ELSE NoRetry]

\* one call of the limiter, made in both runs
SweptCall(req) ==
  /\ Decide(underTest, req)
  /\ unswept' = Middleware(unswept, underTest, req, now).store
  /\ UNCHANGED <<now, ticks, authVars, resp, procs, underTest>>

InitSweep ==
  /\ now = 0
  /\ ticks = 0
  /\ transporter = "null"
  /\ users = [e \in Emails |-> NoUser]
  /\ resets = {}
  /\ refresh = {}
  /\ issued = <<>>
  /\ rtIssued = {}
  /\ outbox = {}
  /\ log = {}
  /\ resp = NoResponse
  /\ procs = <<>>
  /\ rateLimitStore = <<>>
  /\ underTest = forgotPasswordLimiter
  /\ rl = NoDecision
  /\ admitted = <<>>
  /\ unswept = <<>>

NextSweep ==
  \/ \E req \in SweepRequests : SweptCall(req)
  \/ Sweep
  \/ AdvanceRL

SpecSweep == InitSweep /\ [][NextSweep]_vars

(***************************************************************************)
(* SpecGate: the routes /login and /forgot-password, each with its limiter *)
(* in front of the validators and the handler.  A run sends requests to    *)
(* the route of the limiter `underTest`, one request at a time: the        *)
(* limiter runs, and if it calls next() the request is pending until its   *)
(* handler answers, at the instant the request arrived.  "a" is             *)
(* registered, "c" signs up during the run.                                *)
(***************************************************************************)
MaxGateAdvances == 2  \* clock advances in one run of a limited route
GateRequests ==
  {[op |-> "forgot", ip |-> "10.0.0.1", email |-> EmailOf("c"), password |-> ""]}
    \cup {[op |-> "login", ip |-> "10.0.0.1", email |-> EmailOf("a"), password |-> p] : p \in Passwords}

\* a request handed on by next(), not yet answered
Pending(req) ==
  Response(req.op, NoArg, 0,
           [kind |-> "pending", text |-> "", refreshToken |-> NoToken,
            ip |-> req.ip, email |-> req.email, password |-> req.password],
           "pending")

\* the limiter of the route
RouteLimiter(op) == IF op = "login" THEN loginLimiter ELSE forgotPasswordLimiter
\* `message` of the limiter
TooMany(op) ==
  IF op = "login" THEN "Too many login attempts. Please try again in 15 minutes."
  ELSE "Too many password reset requests. Please try again in 15 minutes."

\* the middleware ends in next() (lines 58, 81) or in the 429 (lines 74-78)
CallsNextAlways(d) == TRUE
CallsNext(d) == d.next

\* the request reaches its route and the limiter runs
Route_Limiter(req) ==
  /\ resp.case # "pending"
  /\ RouteLimiter(req.op) = underTest
  /\ Decide(underTest, [ip |-> req.ip, email |-> req.email])
  /\ resp' = IF CallsNext(rl')
               THEN Pending(req)
               ELSE Response(req.op, NoArg, 429, Err(TooMany(req.op)), "rate-limited")
  /\ UNCHANGED <<now, ticks, authVars, procs, underTest, unswept>>

\* next(): validateForgotPassword, forgotPassword
Route_Forgot ==
  /\ resp.case = "pending"
  /\ resp.op = "forgot"
  /\ ForgotPassword(resp.body.email)

\* next(): validateLogin, login
Route_Login ==
  /\ resp.case = "pending"
  /\ resp.op = "login"
  /\ Login(resp.body.email, resp.body.password)

\* POST /signup has no limiter
Route_Signup ==
  /\ resp.case # "pending"
  /\ Signup(EmailOf("c"), "password1")

\* the clock moves between requests: a request is answered at the instant
\* it arrived
Route_Advance ==
  /\ resp.case # "pending"
  /\ ticks < MaxGateAdvances
  /\ AdvanceRL

InitGate ==
  /\ now = 0
  /\ ticks = 0
  /\ transporter = "smtp"
  /\ users = [e \in Emails |-> IF e = EmailOf("a") THEN PasswordUser("password1") ELSE NoUser]
  /\ resets = {}
  /\ refresh = {}
  /\ issued = <<>>
  /\ rtIssued = {}
  /\ outbox = {}
  /\ log = {}
  /\ resp = NoResponse
  /\ procs = <<>>
  /\ rateLimitStore = <<>>
  /\ underTest \in {forgotPasswordLimiter, loginLimiter}
  /\ rl = NoDecision
  /\ admitted = <<>>
  /\ unswept = <<>>

NextGate ==
  \/ \E req \in GateRequests : Route_Limiter(req)
  \/ Route_Forgot
  \/ Route_Login
  \/ Route_Signup
  \/ Route_Advance

SpecGate == InitGate /\ [][NextGate]_vars

(***************************************************************************)
(* SpecFault: resetPassword when a persistence call can reject.  The       *)
(* handler awaits PasswordReset.findOne, User.findById, user.save,         *)
(* resetRecord.save and RefreshToken.deleteMany one after the other inside *)
(* one try block; when one of them rejects, the calls before it have taken *)
(* effect, the rejected call and the calls after it have not, and the      *)
(* catch answers 500.  "a" is registered with "password1".                 *)
(***************************************************************************)
ResetAwaits == {"findOne", "findById", "user.save", "resetRecord.save", "deleteMany"}
ResetFailedMsg == "Failed to reset password. Please try again."

\* POST /reset-password: validateResetPassword, then resetPassword with the
\* awaited call `failAt` rejecting (lines 362-413)
ResetPasswordFailing(token, password, failAt) ==
  LET found == FindValidReset(resets, hashToken(token), now)
      resetRecord == CHOOSE r \in found : TRUE IN
  /\ HasLength64(token)
  /\ failAt \in ResetAwaits
  /\ failAt # "findOne" => found # {}
  /\ failAt \notin {"findOne", "findById"} => users[resetRecord.userId].exists
  /\ users' = IF failAt \in {"resetRecord.save", "deleteMany"}
                THEN SavePassword(users, resetRecord.userId, password)
                ELSE users
  /\ resets' = IF failAt = "deleteMany" THEN MarkUsed(resets, resetRecord) ELSE resets
  /\ resp' = Response("reset", token, 500, Err(ResetFailedMsg), failAt)
  /\ UNCHANGED <<now, ticks, transporter, refresh, issued, rtIssued, outbox, log, procs, rlVars>>

InitFault ==
  /\ now = 0
  /\ ticks = 0
  /\ transporter = "smtp"
  /\ users = [e \in Emails |-> IF e = EmailOf("a") THEN PasswordUser("password1") ELSE NoUser]
  /\ resets = {}
  /\ refresh = {}
  /\ issued = <<>>
  /\ rtIssued = {}
  /\ outbox = {}
  /\ log = {}
  /\ resp = NoResponse
  /\ procs = <<>>
  /\ rateLimitStore = <<>>
  /\ underTest = None
  /\ rl = None
  /\ admitted = <<>>
  /\ unswept = <<>>

NextFault ==
  \/ Login(EmailOf("a"), "password1")
  \/ ForgotPassword(EmailOf("a"))
  \/ \E t \in SubmittedTokens : ResetPassword(t, "password2", "password2")
  \/ \E t \in ResetTokens, failAt \in ResetAwaits : ResetPasswordFailing(t, "password2", failAt)
  \/ Advance

SpecFault == InitFault /\ [][NextFault]_vars

(***************************************************************************)
(* Properties of the reset tokens (SpecReset).                             *)
(***************************************************************************)
IssuedTokens == {issued[i].token : i \in 1..Len(issued)}
IssuedTo(u) == {i \in 1..Len(issued) : issued[i].userId = u}
LatestOf(u) == CHOOSE i \in IssuedTo(u) : \A j \in IssuedTo(u) : j <= i
Superseded == {issued[i].token : i \in {j \in 1..Len(issued) : j # LatestOf(issued[j].userId)}}
LiveResets(u) == {r \in resets : r.userId = u /\ r.used = FALSE /\ r.expiresAt > now}
RowsOf(token) == {r \in resets : r.tokenHash = hashToken(token)}
WouldVerify(token) == \E r \in RowsOf(token) : r.used = FALSE /\ r.expiresAt > now
\* a step that is a reset-password (a verify-reset-token) call with the token
ResetCall(token) ==
  /\ resp'.op = "reset" /\ resp'.arg = token
  /\ \E p, c \in Passwords : ResetPassword(token, p, c)
VerifyCall(token) ==
  /\ resp'.op = "verify" /\ resp'.arg = token
  /\ VerifyResetToken(token)
GenericResetFailure(r) ==
  /\ r.status = 400
  /\ r.case # "validation" => r.body = Err("Invalid or expired reset token. Please request a new password reset.")
GenericVerifyFailure(r) ==
  /\ r.status = 400
  /\ r.body = Err("Invalid or expired reset token")

\* C1: after any sequence of sequential forgot-password calls every user has
\* at most one PasswordReset row with used=false and expiresAt > now, that row
\* is the one of the user's most recent call, no token of an earlier call
\* passes verification, and a verify-reset-token or reset-password call with
\* such a token was answered 400.
C1_SingleActiveToken ==
  /\ \A u \in Emails :
       /\ Cardinality(LiveResets(u)) <= 1
       /\ \A r \in LiveResets(u) :
            IssuedTo(u) # {} /\ r.tokenHash = hashToken(issued[LatestOf(u)].token)
  /\ \A t \in Superseded : ~WouldVerify(t)
  /\ (resp.op \in {"reset", "verify"} /\ resp.arg \in Superseded) => resp.status = 400

\* two calls for the same user, the token of the second still valid, and the
\* unexpired token of the first just refused
C1_Witness ==
  /\ Len(issued) = 2
  /\ issued[1].userId = issued[2].userId
  /\ WouldVerify(issued[2].token)
  /\ \E r \in RowsOf(issued[1].token) : r.expiresAt > now
  /\ resp.op = "verify" /\ resp.arg = issued[1].token /\ resp.status = 400

\* C2: the used flag of a row only goes from false to true; a reset-password
\* that succeeded has left the row of its token used; and every
\* reset-password or verify-reset-token call with a token whose row is used
\* (or gone) is answered 400 with the generic invalid/expired error.
Spent(token) == token \in IssuedTokens /\ \A r \in RowsOf(token) : r.used
UsedIsOneWay ==
  \A r \in resets : \A q \in resets' :
    (q.tokenHash = r.tokenHash /\ q.userId = r.userId /\ r.used) => q.used
C2_OneShot ==
  /\ [][UsedIsOneWay]_vars
  /\ []((resp.op = "reset" /\ resp.status = 200) => Spent(resp.arg))
  /\ [][\A t \in IssuedTokens : Spent(t) => Spent(t)']_vars
  /\ [][\A t \in IssuedTokens :
          Spent(t) => /\ ResetCall(t) => GenericResetFailure(resp')
                      /\ VerifyResetToken(t) => GenericVerifyFailure(resp')]_vars

\* a token was consumed (the password of its user is the new one), and a
\* second reset-password with it, made before it expired, was refused
C2_Witness ==
  /\ resp.op = "reset" /\ resp.status = 400 /\ resp.case = "invalid"
  /\ \E r \in RowsOf(resp.arg) : r.used /\ r.expiresAt > now
  /\ Len(issued) = 1
  /\ users[issued[1].userId].passwordHash = hashPassword("password2")

\* C8: a new row expires 15 minutes after the call that issued it, and a
\* reset-password or verify-reset-token call made at now >= expiresAt is
\* answered 400 and changes nothing, although the row is there with
\* used=false.
ExpiredUnused(token) == \E r \in RowsOf(token) : r.used = FALSE /\ now >= r.expiresAt
C8_Expiry ==
  /\ [][\A r \in resets' \ resets : r.used = FALSE => r.expiresAt = now + 900000]_vars
  /\ [][\A t \in IssuedTokens :
          ExpiredUnused(t) =>
            /\ ResetCall(t) => (GenericResetFailure(resp')
                                 /\ UNCHANGED <<users, resets, refresh>>)
            /\ VerifyResetToken(t) => GenericVerifyFailure(resp')]_vars

\* a reset-password made exactly at expiresAt, the row unused and not purged
C8_Witness ==
  /\ resp.op = "reset" /\ resp.status = 400 /\ resp.case = "invalid"
  /\ \E r \in RowsOf(resp.arg) : r.used = FALSE /\ r.expiresAt = now

\* C9: every validated forgot-password request is answered 200 with the one
\* success message: for a registered user with a password, an unregistered
\* email, a federated-only user, with the mail sent, refused by the
\* transport, or no transport configured.
ForgotCases ==
  {"unregistered", "federated", "registered-mailed", "registered-mailfail", "registered-nomail"}
C9_ForgotInvariance ==
  resp.op = "forgot" =>
    \/ resp.case = "validation"
    \/ /\ resp.case \in ForgotCases
       /\ resp.status = 200
       /\ resp.body = Msg("If an account with that email exists, a password reset link has been sent.")

\* a token was issued, the transport refused the mail, and the answer is 200
C9_Witness ==
  /\ resp.op = "forgot" /\ resp.case = "registered-mailfail" /\ resp.status = 200
  /\ WouldVerify(issued[Len(issued)].token)

(***************************************************************************)
(* Properties of the sessions (Spec).                                      *)
(***************************************************************************)
RefreshRowsOf(token) == {r \in refresh : r.token = token}

\* C3: when reset-password has succeeded for a user no RefreshToken row of
\* that user is left; a refresh token without a row never gets one again;
\* and the refresh flow answers 401 to a refresh token without a row.
C3_ResetRevokesSessions ==
  /\ []((resp.op = "reset" /\ resp.status = 200) =>
          \A r \in refresh : r.userId # issued[resp.arg].userId)
  /\ [][\A t \in rtIssued : RefreshRowsOf(t) = {} => RefreshRowsOf(t)' = {}]_vars
  /\ [][\A t \in rtIssued :
          (RefreshRowsOf(t) = {} /\ RefreshAccessToken(t)) => resp'.status = 401]_vars

\* the user of the reset had been given two refresh tokens (signup and a
\* login), the reset succeeded, and a refresh with one of them got 401
C3_Witness ==
  /\ resp.op = "refresh" /\ resp.status = 401 /\ resp.case = "no-row"
  /\ Cardinality({t \in rtIssued : t.userId = resp.arg.userId}) = 2
  /\ \E i \in 1..Len(issued) :
       /\ issued[i].userId = resp.arg.userId
       /\ users[resp.arg.userId].passwordHash = hashPassword("password2")
  /\ refresh = {}

\* C10: a login whose email has no user record and a login whose email has
\* one but whose password does not match are both answered 401 with the body
\* {error: 'Invalid credentials'}, and neither adds a RefreshToken row.
NoSuchUser(raw) == ~users[normalizeEmail(raw)].exists
WrongPassword(raw, p) ==
  /\ users[normalizeEmail(raw)].exists
  /\ users[normalizeEmail(raw)].passwordHash # hashPassword(p)
C10_LoginUniform ==
  [][\A raw \in RawEmails, p \in Passwords :
       (Login(raw, p) /\ (NoSuchUser(raw) \/ WrongPassword(raw, p))) =>
         /\ resp'.status = 401
         /\ resp'.body = Err("Invalid credentials")
         /\ refresh' = refresh]_vars

\* a login with the wrong password for a user who has one
C10_Witness ==
  /\ resp.op = "login" /\ resp.status = 401 /\ resp.case = "wrong-password"
  /\ \E e \in Emails : users[e].exists /\ users[e].passwordHash # NoHash

(***************************************************************************)
(* Properties of requests in flight together (SpecConc).                   *)
(***************************************************************************)
InFlight(op) == \E p \in ProcIds : procs[p].op = op /\ procs[p].pc # "done"
Succeeded(p, op) == procs[p].op = op /\ procs[p].pc = "done" /\ procs[p].status = 200

\* C5: once the forgot-password requests in flight have all answered, no
\* user has two PasswordReset rows that are both used=false and unexpired,
\* however the steps of the requests were interleaved.
C5_AtomicIssue ==
  ~InFlight("forgot") => \A u \in Emails : Cardinality(LiveResets(u)) <= 1

\* C6: of the reset-password requests that carry the same token at most one
\* answers with the success message, however they were interleaved.
C6_ConsumeOnce ==
  \A p, q \in ProcIds :
    (Succeeded(p, "reset") /\ Succeeded(q, "reset") /\ procs[p].token = procs[q].token)
      => p = q

\* C7: once the logins and reset-passwords in flight have all answered, no
\* RefreshToken row exists that a login created after authenticating with a
\* password that is no longer the password of the user.
C7_NoSessionOnOldCredential ==
  (~InFlight("login") /\ ~InFlight("reset")) =>
    \A p \in ProcIds :
      (Succeeded(p, "login")
         /\ users[procs[p].email].passwordHash # hashPassword(procs[p].password))
        => RefreshRowsOf(procs[p].refreshToken) = {}

(***************************************************************************)
(* Properties of the rate limiter (SpecRL).                                *)
(***************************************************************************)
\* C4: a call is passed on to the next handler exactly when the count of its
\* key's entry, this call counted, is <= maxRequests; a call not passed on is
\* answered 429; and no key has more than maxRequests calls passed on in one
\* window.
C4_AdmitIffWithinQuota ==
  /\ [][\A lim \in Limiters, req \in Requests :
          RateLimit(lim, req) =>
            /\ rl'.next <=> rateLimitStore'[keyGenerator(lim, req)].count <= lim.maxRequests
            /\ rl'.next <=> rl'.status # 429]_vars
  /\ [](\A k \in DOMAIN admitted : admitted[k] <= underTest.maxRequests)

\* the general limiter has passed on its 100 calls and refused the 101st
C4_Witness ==
  /\ underTest = generalLimiter
  /\ rl.status = 429 /\ ~rl.next
  /\ HasEntry(rateLimitStore, rl.key)
  /\ rateLimitStore[rl.key].count = 101
  /\ admitted[rl.key] = 100
  /\ now <= rateLimitStore[rl.key].resetTime

(***************************************************************************)
(* Properties of the refresh tokens under a moving clock (SpecSession).    *)
(***************************************************************************)
MatchingRows(t) == {r \in refresh : r.token = t /\ r.userId = t.userId}
HasLiveRow(t) == \E r \in MatchingRows(t) : ~(r.expiresAt < now)

C12_LogoutIdempotent ==
  [][\A t \in PresentedTokens :
       Logout(t) =>
         /\ refresh' = {r \in refresh : r.token # t \/ t = NoToken}
         /\ resp'.status = 200
         /\ resp'.body = Msg("Logout successful")
         /\ LogoutDelete(refresh', t) = refresh']_vars

\* a logout on one device: the row of its token is gone, the row of the
\* user's other token is still there
C12_Witness ==
  /\ resp.op = "logout" /\ resp.status = 200
  /\ resp.arg \in rtIssued
  /\ MatchingRows(resp.arg) = {}
  /\ \E r \in refresh : r.userId = resp.arg.userId /\ r.token # resp.arg

\* the least n with n * 1000 >= x
IsCeilSeconds(n, x) == n * 1000 >= x /\ (n - 1) * 1000 < x
EntryOf(req) == rateLimitStore[keyGenerator(underTest, req)]
Elapsed(req) ==
  /\ HasEntry(rateLimitStore, keyGenerator(underTest, req))
  /\ now > EntryOf(req).resetTime

\* C13: every decision sets X-RateLimit-Limit to maxRequests,
\* X-RateLimit-Reset to the resetTime of the key's window and
\* X-RateLimit-Remaining to maxRequests - k, or 0 when that is negative, k
\* being the count of the window with this call; with maxRequests = 3 the
\* calls of a window are answered: passed on with 2, 1, 0 left, then
\* refused with 0 left; and the first call after the window has elapsed is
\* passed on with maxRequests - 1 left.
C13_Headers ==
  /\ [][\A req \in Requests :
          RateLimit(underTest, req) =>
            LET k == EntryOf(req)'.count IN
            /\ rl'.limit = underTest.maxRequests
            /\ rl'.reset = EntryOf(req)'.resetTime
            /\ rl'.remaining = IF underTest.maxRequests - k < 0 THEN 0
                                ELSE underTest.maxRequests - k
            /\ underTest.maxRequests = 3 =>
                  /\ k = 1 => (rl'.next /\ rl'.remaining = 2)
                  /\ k = 2 => (rl'.next /\ rl'.remaining = 1)
                  /\ k = 3 => (rl'.next /\ rl'.remaining = 0)
                  /\ k = 4 => (~rl'.next /\ rl'.remaining = 0)
            /\ Elapsed(req) =>
                  (rl'.next /\ k = 1 /\ rl'.remaining = underTest.maxRequests - 1)]_vars

\* the forgot-password limiter: the window that began at time 0 counted
\* four calls, and the call made a millisecond after its end is passed on
\* with 2 left
C13_Witness ==
  /\ underTest = forgotPasswordLimiter
  /\ rl.before = 4
  /\ rl.next /\ rl.remaining = 2
  /\ rl.at = forgotPasswordLimiter.windowMs + 1
  /\ rl.reset = rl.at + forgotPasswordLimiter.windowMs
  /\ admitted[rl.key] = 1

\* C14: a call that arrives when now >= entry.resetTime, the instant
\* now = entry.resetTime included, starts a new window (count = 1,
\* resetTime = now + windowMs) and is passed on.
C14_WindowBoundary ==
  [][\A req \in Requests :
       (RateLimit(underTest, req)
          /\ HasEntry(rateLimitStore, keyGenerator(underTest, req))
          /\ now >= EntryOf(req).resetTime) =>
         /\ rl'.next
         /\ EntryOf(req)'.count = 1
         /\ EntryOf(req)'.resetTime = now + underTest.windowMs]_vars

\* C15: a refused call is answered 429 with the Retry-After header and the
\* body field retryAfter both ceil((resetTime - now) / 1000) of the key's
\* window, a value from 0 to ceil(windowMs / 1000); a call passed on has
\* no Retry-After.
C15_RetryAfter ==
  [][\A req \in Requests :
       RateLimit(underTest, req) =>
         /\ ~rl'.next =>
               /\ rl'.status = 429
               /\ rl'.retryAfterHeader = rl'.retryAfter
               /\ IsCeilSeconds(rl'.retryAfter, EntryOf(req)'.resetTime - now)
               /\ rl'.retryAfter >= 0
               /\ \A n \in 0..(underTest.windowMs \div 1000 + 1) :
                     IsCeilSeconds(n, underTest.windowMs) => rl'.retryAfter <= n
         /\ rl'.next =>
               (rl'.retryAfterHeader = NoRetry /\ rl'.retryAfter = NoRetry)]_vars

\* a call refused a millisecond into the window: 899999 ms are left and
\* Retry-After is 900
C15_Witness ==
  /\ underTest = forgotPasswordLimiter
  /\ rl.status = 429
  /\ rl.reset - rl.at = 899999
  /\ rl.retryAfterHeader = 900 /\ rl.retryAfter = 900

(***************************************************************************)
(* Properties of a burst of calls (SpecBurst).                             *)
(***************************************************************************)
RanLimiter == {p \in CallIds : procs[p].pc \in {"handler", "done"}}
PassedOn == {p \in RanLimiter : procs[p].pc = "handler" \/ procs[p].status = 200}
BurstKey == keyGenerator(underTest, [ip |-> CHOOSE ip \in Ips : TRUE, email |-> EmailOf("a")])

\* C16: with several requests for one key in flight, the limiter's read,
\* increment and check of a request are one step: the count of the key is
\* the number of requests that have run the limiter (no increment is
\* lost), and the requests passed on in the window are at most maxRequests.
C16_SerializedCounter ==
  /\ RanLimiter # {} =>
       /\ HasEntry(rateLimitStore, BurstKey)
       /\ rateLimitStore[BurstKey].count = Cardinality(RanLimiter)
  /\ Cardinality(PassedOn) <= underTest.maxRequests
  /\ \A p \in RanLimiter \ PassedOn : procs[p].status = 429

\* three requests are in their handlers, a fourth has been refused and a
\* fifth has arrived and not yet run the limiter
C16_Witness ==
  /\ Cardinality({p \in CallIds : procs[p].pc = "handler"}) = 3
  /\ \E p \in CallIds : procs[p].pc = "done" /\ procs[p].status = 429
  /\ \E p \in CallIds : procs[p].pc = "limiter"

(***************************************************************************)
(* Properties of the failure answers and of verify-reset-token (SpecReset) *)
(***************************************************************************)
NeverIssued(token) == token \notin IssuedTokens
Expired(token) == \E r \in RowsOf(token) : now >= r.expiresAt
UsedOrSuperseded(token) == \E r \in RowsOf(token) : r.used
Purged(token) == token \in IssuedTokens /\ RowsOf(token) = {}

\* C17: for a 64-character token that was never issued, one that has
\* expired, and one that was used or superseded, reset-password answers
\* with one status and body, and verify-reset-token with one status and
\* body: status 400 and the endpoint's invalid-or-expired message.
C17_UniformTokenFailure ==
  [][\A t \in ResetTokens :
       (NeverIssued(t) \/ Expired(t) \/ UsedOrSuperseded(t) \/ Purged(t)) =>
         /\ \A p \in Passwords :
              (resp'.op = "reset" /\ resp'.arg = t /\ ResetPassword(t, p, p)) =>
                /\ resp'.status = 400
                /\ resp'.body = Err("Invalid or expired reset token. Please request a new password reset.")
         /\ VerifyCall(t) =>
              /\ resp'.status = 400
              /\ resp'.body = Err("Invalid or expired reset token")]_vars

\* token 1 was superseded by token 2 and its row is marked used, token 2
\* has expired unused, and the last answer refused token 2
C17_Witness ==
  /\ Len(issued) = 2
  /\ \E r \in RowsOf(1) : r.used
  /\ \E r \in RowsOf(2) : ~r.used /\ now >= r.expiresAt
  /\ resp.op = "reset" /\ resp.arg = 2 /\ resp.status = 400 /\ resp.case = "invalid"

\* C18: verify-reset-token answers {valid: true} exactly when
\* reset-password, called with the token in the same state, gets past its
\* token lookup (both exactly when the token has an unused row with
\* expiresAt > now); a token that is not 64 characters long gets the
\* format error; and verify-reset-token changes no PasswordReset, User or
\* RefreshToken row.
C18_VerifyWithoutConsuming ==
  /\ [][\A t \in ResetTokens :
          /\ VerifyCall(t) =>
               (resp'.status = 200 /\ resp'.body = Msg("valid")) <=> WouldVerify(t)
          /\ \A p \in Passwords :
               (resp'.op = "reset" /\ resp'.arg = t /\ ResetPassword(t, p, p)) =>
                 (resp'.case # "invalid" <=> WouldVerify(t))]_vars
  /\ [][VerifyCall(Malformed) =>
          (resp'.status = 400 /\ resp'.body = Err("Invalid token format"))]_vars
  /\ [][\A t \in SubmittedTokens :
          VerifyCall(t) => UNCHANGED <<users, resets, refresh>>]_vars

\* a token was verified, and can still be consumed: its row is unused and
\* unexpired and the password of its user is the old one
C18_Witness ==
  /\ resp.op = "verify" /\ resp.status = 200
  /\ WouldVerify(resp.arg)
  /\ users[issued[resp.arg].userId].passwordHash = hashPassword("password1")

(***************************************************************************)
(* Properties of what is stored and what is logged.                        *)
(***************************************************************************)
\* C19: no stored row holds a plaintext token that was issued: a
\* PasswordReset row holds the SHA-256 digest of its token, and no
\* RefreshToken row holds a refresh token that was handed to a caller.
C19_DigestOnly ==
  /\ \A r \in resets : \E t \in IssuedTokens : r.tokenHash = sha256[t]
  /\ \A r \in refresh : r.token \notin rtIssued

\* C20: no line of the server log carries a plaintext reset token, with the
\* mail transport configured or not and the send succeeding or failing; a
\* plaintext token leaves the process only in a mail handed to the
\* transport.
C20_NoTokenInLog ==
  /\ \A l \in log : l.token \notin IssuedTokens
  /\ \A m \in outbox : m.token \in IssuedTokens

(***************************************************************************)
(* Properties of signup and of the whole session flow (Spec).              *)
(***************************************************************************)
Registered(raw) == users[normalizeEmail(raw)].exists
OutsideDomain(raw) == raw.domain # "@mictech.edu.in"
SignupCall(raw) ==
  /\ resp'.op = "signup"
  /\ \E p \in Passwords : Signup(raw, p)

\* C21: a signup for a registered email is answered 409 and a signup for an
\* email outside @mictech.edu.in 400, and neither creates or changes a User
\* or RefreshToken row; a signup answered 201 found no user of its email,
\* and no signup changes the row of a user that exists, so an email never
\* has a second User row.
C21_SignupRejections ==
  [][\A raw \in SignupEmails :
       SignupCall(raw) =>
         /\ (Registered(raw) /\ ~OutsideDomain(raw)) => resp'.status = 409
         /\ OutsideDomain(raw) => resp'.status = 400
         /\ (Registered(raw) \/ OutsideDomain(raw)) => UNCHANGED <<users, refresh>>
         /\ resp'.status = 201 => ~Registered(raw)
         /\ \A e \in Emails : users[e].exists => users'[e] = users[e]]_vars

\* a second signup for the registered email got 409 and added no row
C21_Witness ==
  /\ resp.op = "signup" /\ resp.status = 409
  /\ users[EmailOf("a")].exists
  /\ Cardinality({r \in refresh : r.userId = EmailOf("a")}) = 1

LoginCall(raw, p) == resp'.op = "login" /\ Login(raw, p)
RefreshCall(t) == resp'.op = "refresh" /\ resp'.arg = t /\ RefreshAccessToken(t)
HasPassword(e, p) == users[e].exists /\ users[e].passwordHash = [alg |-> "bcrypt", of |-> p]

\* C22: the end-to-end order.  A signup answered 201 hands out a refresh
\* token with a row; a reset-password that succeeds with a new password
\* leaves that password as the user's and no row for any refresh token the
\* user was given before; from then on a refresh with such a token is
\* answered 401, a login with the new password is answered 200 with a
\* refresh token never handed out before and a new row, and a login with
\* another (the old) password is answered 401.
C22_EndToEnd ==
  /\ [][\A raw \in SignupEmails :
          (SignupCall(raw) /\ resp'.status = 201) =>
            /\ resp'.body.refreshToken \notin rtIssued
            /\ \E r \in refresh' : r.token = resp'.body.refreshToken]_vars
  /\ [][\A t \in ResetTokens, p \in Passwords :
          (resp'.op = "reset" /\ resp'.status = 200 /\ ResetPassword(t, p, p)) =>
            /\ users'[issued[t].userId].passwordHash = [alg |-> "bcrypt", of |-> p]
            /\ \A rt \in rtIssued :
                 rt.userId = issued[t].userId => ~\E r \in refresh' : r.token = rt]_vars
  /\ [][\A rt \in rtIssued :
          (RefreshCall(rt) /\ ~\E r \in refresh : r.token = rt) => resp'.status = 401]_vars
  /\ [][\A raw \in RawEmails, p \in Passwords :
          LoginCall(raw, p) =>
            IF HasPassword(normalizeEmail(raw), p)
              THEN /\ resp'.status = 200
                   /\ resp'.body.refreshToken \notin rtIssued
                   /\ refresh' \ refresh =
                        {[userId |-> normalizeEmail(raw), token |-> resp'.body.refreshToken,
                          expiresAt |-> now + RefreshTTL]}
              ELSE resp'.status = 401]_vars

\* the scenario run to its end: "a" signed up (refresh token 1), asked for
\* a reset token, reset the password to "password2",
\* and the login with "password2" was just answered 200 with refresh token
\* 2, the only one with a row
C22_Witness ==
  /\ resp.op = "login" /\ resp.status = 200
  /\ resp.body.refreshToken = generateRefreshToken(EmailOf("a"), 2)
  /\ HasPassword(EmailOf("a"), "password2")
  /\ Len(issued) = 1 /\ \A r \in RowsOf(1) : r.used
  /\ {r.token : r \in refresh} = {generateRefreshToken(EmailOf("a"), 2)}

(***************************************************************************)
(* Properties of the keys of the limiters (SpecKeys).                      *)
(***************************************************************************)
SameLetters(e1, e2) == e1.local = e2.local /\ e1.domain = e2.domain
CountOf(store, key) == IF key \in DOMAIN store THEN store[key].count ELSE 0
\* what the limiter would answer to the request, were it called now
WouldPassOn(store, lim, req) == CountOf(store, keyGenerator(lim, req)) + 1 <= lim.maxRequests

LiveKeys(store, t) == {k \in DOMAIN store : ~(store[k].resetTime < t)}

\* C24: the sweep is not a correctness dependency.  Every call of the
\* limiter gets the decision and the headers (next() or 429, X-RateLimit-*,
\* Retry-After, retryAfter) that the same call gets at the same instant in
\* the run where the sweep never fires; the two stores agree on every entry
\* whose window has not elapsed; and a sweep removes an entry only if its
\* resetTime is before now.
C24_SweepUnobservable ==
  /\ [][\A req \in SweepRequests : SweptCall(req) =>
          Headers(rl') = Headers(Middleware(unswept, underTest, req, now))]_vars
  /\ [](/\ LiveKeys(unswept, now) = LiveKeys(rateLimitStore, now)
        /\ \A k \in LiveKeys(unswept, now) : rateLimitStore[k] = unswept[k])
  /\ [][Sweep => \A k \in DOMAIN rateLimitStore \ DOMAIN rateLimitStore' :
                   /\ rateLimitStore[k].resetTime < now
                   /\ k \notin LiveKeys(rateLimitStore, now)]_vars

\* a call is rejected in the second window of its key, which the sweep had
\* removed after the first, while the swept entry of the other key is gone
C24_Witness ==
  LET ka == keyGenerator(forgotPasswordLimiter, [ip |-> "10.0.0.1", email |-> EmailOf("a")])
      kb == keyGenerator(forgotPasswordLimiter, [ip |-> "10.0.0.1", email |-> EmailOf("b")]) IN
  /\ rl.key = ka
  /\ rl.status = 429
  /\ rl.at > forgotPasswordLimiter.windowMs
  /\ kb \in DOMAIN unswept
  /\ kb \notin DOMAIN rateLimitStore
  /\ unswept[kb].count > forgotPasswordLimiter.maxRequests

(***************************************************************************)
(* Properties of the limited routes (SpecGate).                            *)
(***************************************************************************)
ForgotKey(l) == keyGenerator(forgotPasswordLimiter, [ip |-> "10.0.0.1", email |-> EmailOf(l)])
\* the reset tokens created for the email of the key since its entry began
TokensInWindow(key) ==
  {r \in resets : /\ r.userId = key.email
                  /\ r.expiresAt - ResetTTL >= rateLimitStore[key].resetTime - forgotPasswordLimiter.windowMs}
Rejected(req) == Route_Limiter(req) /\ rl'.status = 429

\* C25: a request the limiter answers 429 reaches neither the validators
\* nor the handler.  The 429 is the response of the request and the step
\* leaves the users, the PasswordReset rows (none created, none marked
\* used), the RefreshToken rows and the outbox as they were; a handler runs
\* only for a request whose limiter called next(); and the reset tokens
\* created for a forgot-password key within the window of its entry are at
\* most the calls passed on in that window, which are at most 3.
C25_RejectedReachesNothing ==
  /\ [][\A req \in GateRequests : Rejected(req) =>
          /\ resp'.status = 429
          /\ resp'.case = "rate-limited"
          /\ UNCHANGED authVars]_vars
  /\ [][(Route_Forgot \/ Route_Login) =>
          /\ rl.next
          /\ rl.status # 429
          /\ rl.key = keyGenerator(RouteLimiter(resp.op), resp.body)]_vars
  /\ [][(resets' # resets \/ outbox' # outbox \/ issued' # issued) =>
          /\ resp.case = "pending"
          /\ resp.op = "forgot"
          /\ rl.next]_vars
  /\ [][refresh' # refresh =>
          \/ resp.case = "pending" /\ resp.op = "login" /\ rl.next
          \/ resp'.op = "signup"]_vars
  /\ [](\A key \in DOMAIN rateLimitStore : key.prefix = "forgot-password" =>
          /\ Cardinality(TokensInWindow(key)) <= admitted[key]
          /\ admitted[key] <= 3)

\* the fourth forgot-password request of a window is answered 429 while the
\* user holds an unused reset token
C25_Witness ==
  /\ resp.op = "forgot"
  /\ resp.status = 429
  /\ rl.key = ForgotKey("c")
  /\ admitted[ForgotKey("c")] = 3
  /\ \E r \in resets : r.userId = EmailOf("c") /\ ~r.used
  /\ Cardinality(outbox) = Cardinality(resets)
  /\ CountOf(rateLimitStore, ForgotKey("c")) = 4

(***************************************************************************)
(* Properties of the refresh flow and of the sessions (SpecSession).       *)
(***************************************************************************)
\* C26: a successful refresh rotates nothing.  It answers 200 with an
\* access token and no refresh token, leaves the RefreshToken rows (and the
\* tokens handed out) as they were, so the token's row is still live after
\* it; a refresh with a token whose row is present and not expired, of an
\* existing user, always succeeds, however many succeeded before; and a row
\* leaves the collection only by a logout with its token, by a successful
\* password reset, or when a refresh finds it expired.
C26_NoRotation ==
  /\ [][\A t \in PresentedTokens : RefreshCall(t) =>
          /\ resp'.status = 200 =>
               /\ UNCHANGED <<refresh, rtIssued, users, resets>>
               /\ resp'.body = Msg("accessToken")
               /\ resp'.body.refreshToken = NoToken
               /\ HasLiveRow(t)'
          /\ (t \in rtIssued /\ HasLiveRow(t) /\ users[t.userId].exists) =>
               resp'.status = 200]_vars
  /\ [][\A r \in refresh \ refresh' :
          \/ resp'.op = "logout" /\ resp'.arg = r.token
          \/ resp'.op = "reset" /\ resp'.status = 200
          \/ resp'.op = "refresh" /\ resp'.case = "expired" /\ r.expiresAt < now]_vars

\* a refresh succeeds at the last instant of its row, seven days after the
\* login that issued the token, while a second session of the user is open
C26_Witness ==
  /\ resp.op = "refresh"
  /\ resp.status = 200
  /\ now = RefreshTTL
  /\ \E r \in MatchingRows(resp.arg) : r.expiresAt = now
  /\ Cardinality(refresh) = 2

\* the session a signup or login has just opened: the row of the refresh
\* token in the response
Opened(uid) ==
  [userId |-> uid, token |-> resp'.body.refreshToken, expiresAt |-> now + RefreshTTL]
OpensOneSession(uid) ==
  /\ Opened(uid) \notin refresh
  /\ resp'.body.refreshToken \notin rtIssued
  /\ refresh' = refresh \cup {Opened(uid)}
  /\ \A t \in rtIssued : HasLiveRow(t) => HasLiveRow(t)'

\* C27 (SpecGate): a signup answered 201 and a login answered 200 each add
\* exactly one RefreshToken row, of the user, holding the refresh token of
\* the response, with expiresAt = now + 7 days; every row that existed is
\* still there unchanged, so every session that was valid before is valid
\* after; and a signup or login that fails adds and removes no row.
C27_OneRowPerLogin ==
  /\ [][Route_Login =>
          IF resp'.status = 200 THEN OpensOneSession(resp.body.email)
          ELSE UNCHANGED <<refresh, rtIssued>>]_vars
  /\ [][Route_Signup =>
          IF resp'.status = 201 THEN OpensOneSession(EmailOf("c"))
          ELSE UNCHANGED <<refresh, rtIssued>>]_vars

\* the user has logged in a second time, a millisecond or more after the
\* first, and both sessions are valid
C27_Witness ==
  /\ resp.op = "login"
  /\ resp.status = 200
  /\ \E r1, r2 \in refresh :
       /\ r1.userId = EmailOf("a") /\ r2.userId = EmailOf("a")
       /\ r1.expiresAt < r2.expiresAt
       /\ r2.expiresAt = now + RefreshTTL
       /\ HasLiveRow(r1.token) /\ HasLiveRow(r2.token)

(***************************************************************************)
(* Properties of the window (SpecRL).                                      *)
(***************************************************************************)
Live(key) == HasEntry(rateLimitStore, key) /\ ~(rateLimitStore[key].resetTime < now)
Lapsed(key) == HasEntry(rateLimitStore, key) /\ rateLimitStore[key].resetTime < now

\* C28: the window is fixed.  While an entry is live (now <= resetTime) no
\* step, whether a call, the sweep or the clock, removes it, changes its
\* resetTime or lowers its count; a call answered 429 adds one to the count
\* and leaves resetTime as it was; and a call made after resetTime has
\* passed is passed on, with a new entry of count 1, however many calls
\* were rejected before.
C28_FixedWindow ==
  /\ [][\A key \in DOMAIN rateLimitStore : Live(key) =>
          /\ HasEntry(rateLimitStore', key)
          /\ rateLimitStore'[key].resetTime = rateLimitStore[key].resetTime
          /\ rateLimitStore'[key].count >= rateLimitStore[key].count]_vars
  /\ [][\A lim \in Limiters, req \in Requests : RateLimit(lim, req) =>
          LET key == keyGenerator(lim, req) IN
          /\ rl'.status = 429 =>
               /\ Live(key)
               /\ rateLimitStore'[key].count = rateLimitStore[key].count + 1
               /\ rateLimitStore'[key].resetTime = rateLimitStore[key].resetTime
               /\ rl'.reset = rateLimitStore[key].resetTime
          /\ Lapsed(key) =>
               /\ rl'.next
               /\ rl'.status # 429
               /\ rateLimitStore'[key] = [count |-> 1, resetTime |-> now + lim.windowMs]]_vars

\* the first call after a window in which calls were rejected twice: it
\* found the old entry, over its limit, and was passed on
C28_Witness ==
  /\ rl.next
  /\ rl.before > underTest.maxRequests + 1
  /\ rl.at > underTest.windowMs
  /\ rl.remaining = underTest.maxRequests - 1
  /\ rateLimitStore[rl.key].count = 1

(***************************************************************************)
(* Properties of reset-password under persistence failures (SpecFault).    *)
(***************************************************************************)
ResetAnswer(token) ==
  /\ resp'.op = "reset"
  /\ resp'.arg = token
  /\ \/ ResetPassword(token, "password2", "password2")
     \/ \E failAt \in ResetAwaits : ResetPasswordFailing(token, "password2", failAt)

\* C29: reset-password is all-or-nothing with respect to failures.  A
\* reset-password request answered 400 or 500, whichever persistence call
\* failed, leaves the users (the password hash), the PasswordReset rows (the
\* used flag) and the RefreshToken rows as they were before the request.
C29_AllOrNothing ==
  [][\A token \in SubmittedTokens :
       (ResetAnswer(token) /\ resp'.status \in {400, 500}) =>
         UNCHANGED <<users, resets, refresh>>]_vars

(***************************************************************************)
(* Properties of passive expiry (SpecReset).                               *)
(***************************************************************************)
\* the rows the persistence layer may delete now, and the ways of deleting
\* some of them
Deletable == {r \in resets : TTLPassed(r, now)}
Deletions == SUBSET Deletable
ForgotCall(raw) == resp'.op = "forgot" /\ ForgotPassword(raw)

\* C30: passive expiry is unobservable.  In every state the runs reach,
\* with rows deleted or kept so far, and for every set D of rows whose
\* expiresAt has passed: a verify-reset-token or reset-password call finds
\* in the collection without D the rows it finds in the collection with D,
\* so its answer and what it does to the user and the sessions are the
\* same; a reset-password or forgot-password call leaves, run without D,
\* the collection it leaves run with D minus the rows of D (marked used, if
\* the call marks them), which are still rows whose expiresAt has passed;
\* and the persistence layer deletes only such rows.
C30_PassiveExpiryUnobservable ==
  /\ [][\A token \in ResetTokens : VerifyCall(token) =>
          \A D \in Deletions :
            /\ VerifyLookup(resets \ D, hashToken(token), now)
                 = VerifyLookup(resets, hashToken(token), now)
            /\ resp'.status = 200 <=> VerifyLookup(resets \ D, hashToken(token), now) # {}]_vars
  /\ [][\A token \in ResetTokens : ResetCall(token) =>
          \A D \in Deletions :
            LET found == FindValidReset(resets \ D, hashToken(token), now) IN
            /\ found = FindValidReset(resets, hashToken(token), now)
            /\ resp'.status = 200 => found # {}
            /\ (resp'.status = 400 /\ resp'.case = "invalid") => found = {}
            /\ resets' \ D = IF resp'.status = 200
                               THEN MarkUsed(resets \ D, CHOOSE r \in found : TRUE)
                               ELSE resets \ D]_vars
  /\ [][\A raw \in ForgotInputs : ForgotCall(raw) =>
          \A D \in Deletions :
            LET uid == toLowerCase(normalizeEmail(raw))
                plainToken == issued'[Len(issued')].token IN
            IF issued' = issued
              THEN resets' \ D = resets \ D
              ELSE /\ resets' \ InvalidatePrior(D, uid) =
                        CreateReset(InvalidatePrior(resets \ D, uid), uid,
                                    hashToken(plainToken), now)
                   /\ \A r \in InvalidatePrior(D, uid) : TTLPassed(r, now)]_vars
  /\ [][PassiveExpiry => (resets' \subseteq resets /\ resets \ resets' \subseteq Deletable)]_vars

\* the row of the first token has been deleted after its expiry and the row
\* of the second, also expired, is kept: reset-password with the first
\* token is refused
C30_Witness ==
  /\ resp.op = "reset"
  /\ resp.arg = 1
  /\ resp.status = 400
  /\ Len(issued) = 2
  /\ RowsOf(1) = {}
  /\ \E r \in RowsOf(2) : r.expiresAt < now

====
